---- MODULE Spec2Model ----
(***************************************************************************)
(* CodeVault performance monitor (backend/monitor.py).                     *)
(*                                                                         *)
(* Units.  Every "*_ms" value is held as an integer number of thousandths  *)
(* of a millisecond (so 100.00 ms is 100000) and every "*_mbps" value as   *)
(* hundredths of a Mbit/s; round(x, 2) therefore rounds a "*_ms" value to  *)
(* a multiple of 10.  Elapsed wall-clock time is in microseconds.          *)
(***************************************************************************)
EXTENDS Integers, Sequences, FiniteSets, TLC

\* ------------------------------------------------------------------ bounds
MaxCids == 2    \* longest p2p_cids list handed to run_benchmark
MaxUrls == 2    \* longest public_urls list handed to run_benchmark
MaxIter == 3    \* largest iterations argument handed to run_benchmark
MaxCalls == 6   \* most sampler calls one run_benchmark invocation makes
MaxPeers == 6   \* longest "peers" list the backend reports

\* --------------------------------------------------------- configuration
PUBLIC_TEST_URLS ==
    << "https://raw.githubusercontent.com/nodejs/node/main/README.md",
       "https://raw.githubusercontent.com/facebook/react/main/README.md" >>

MAIN_ITERATIONS == 3
PEER_LIST_LIMIT == 5

\* ------------------------------------------------------- the environment
\* What one blocking requests.get can produce: an exception of the requests
\* library, or a response (status, body) after `elapsed` microseconds.
NoExc == ""

RequestExceptions == {"ConnectionError", "Timeout", "JSONDecodeError"}

IsRequestException(exc) == exc \in RequestExceptions

NetError(exc, msg) ==
    [exc |-> exc, msg |-> msg, status |-> 0, elapsed |-> 0, content_len |-> 0,
     text |-> "", json_ok |-> FALSE, json |-> <<>>]

NetResponse(status, elapsed, content_len, text, json_ok, json) ==
    [exc |-> NoExc, msg |-> "", status |-> status, elapsed |-> elapsed,
     content_len |-> content_len, text |-> text, json_ok |-> json_ok, json |-> json]

\* Outcomes of GET <url> for the latency probe.
LatencyOutcomes ==
    { NetError("ConnectionError", "connection refused"),
      NetError("Timeout", "read timed out"),
      NetResponse(200, 100004, 2500, "# README", FALSE, <<>>),
      NetResponse(404, 100395, 14, "404: Not Found", FALSE, <<>>) }

\* Outcomes of GET /api/benchmark/p2p/{cid}.
P2POutcomes ==
    { NetError("ConnectionError", "connection refused"),
      NetResponse(200, 100004, 40, "{bytes, speedMbps}", TRUE,
                  [bytes |-> 2500, speedMbps |-> 1250]),
      NetResponse(200, 100395, 2, "{}", TRUE, <<>>),
      NetResponse(200, 100004, 9, "<html/>", FALSE, <<>>),
      NetResponse(500, 100004, 21, "Internal Server Error", FALSE, <<>>),
      NetResponse(204, 100004, 0, "", FALSE, <<>>) }

\* Outcomes of GET <public url>.
CentralOutcomes ==
    { NetError("ConnectionError", "connection refused"),
      NetResponse(200, 100004, 2500, "# README", FALSE, <<>>),
      NetResponse(404, 100395, 14, "404: Not Found", FALSE, <<>>) }

\* Outcomes of GET /api/health.
HealthOutcomes ==
    { NetError("ConnectionError", "connection refused"),
      NetResponse(200, 1000, 15, "{status: ok}", TRUE, [status |-> "ok"]),
      NetResponse(503, 1000, 19, "Service Unavailable", FALSE, <<>>) }

\* ------------------------------------------------------------ arithmetic
RECURSIVE SumSeq(_)
SumSeq(s) == IF s = <<>> THEN 0 ELSE Head(s) + SumSeq(Tail(s))

RECURSIVE MinSeq(_)
MinSeq(s) ==
    IF Len(s) = 1 THEN s[1]
    ELSE LET m == MinSeq(Tail(s)) IN IF s[1] < m THEN s[1] ELSE m

RECURSIVE MaxSeq(_)
MaxSeq(s) ==
    IF Len(s) = 1 THEN s[1]
    ELSE LET m == MaxSeq(Tail(s)) IN IF s[1] > m THEN s[1] ELSE m

\* num/den (num >= 0, den > 0) rounded to the nearest integer, ties to even.
RoundDiv(num, den) ==
    LET q == num \div den
        r == num % den
    IN  IF 2 * r < den THEN q
        ELSE IF 2 * r > den THEN q + 1
        ELSE IF q % 2 = 0 THEN q ELSE q + 1

\* round(x, 2) of a "*_ms" value held in thousandths of a millisecond.
Round2(x) == 10 * RoundDiv(x, 10)

\* round(statistics.mean(xs), 2)
MeanRounded(xs) == 10 * RoundDiv(SumSeq(xs), 10 * Len(xs))

\* round(statistics.stdev(xs), 2): the sample standard deviation (n - 1 in
\* the denominator).  It is shift-invariant, so it is computed on the
\* distances to the minimum; r is the result in hundredths of a millisecond:
\* (r - 1/2)^2 <= variance / 100 < (r + 1/2)^2.
StdevRounded(xs) ==
    LET n == Len(xs)
        m == MinSeq(xs)
        ys == [i \in 1..n |-> xs[i] - m]
        S == SumSeq(ys)
        Q == SumSeq([i \in 1..n |-> ys[i] * ys[i]])
        N == n * Q - S * S
        D == n * (n - 1)
        top == (MaxSeq(xs) - m) \div 10 + 1
    IN  10 * (CHOOSE r \in 0..top :
                /\ (r = 0 \/ (2 * r - 1) * (2 * r - 1) * 100 * D <= 4 * N)
                /\ 4 * N < (2 * r + 1) * (2 * r + 1) * 100 * D)

\* ---------------------------------------------------------------- samplers
\* A sampler's result is the dict it returns; an exception that leaves the
\* sampler is the record [raised |-> <exception class>].
Raised(exc) == [raised |-> exc]

IsRaised(r) == "raised" \in DOMAIN r

\* str(e) of the exception response.json() raises on a body that is not JSON.
JsonDecodeMessage == "Expecting value: line 1 column 1 (char 0)"

DictGet(d, key, default) == IF key \in DOMAIN d THEN d[key] ELSE default

measure_latency(url, net) ==
    IF net.exc = NoExc
    THEN [url |-> url, status |-> net.status,
          latency_ms |-> Round2(net.elapsed),
          size_bytes |-> net.content_len, success |-> TRUE]
    ELSE IF IsRequestException(net.exc)
    THEN [url |-> url, error |-> net.msg, success |-> FALSE]
    ELSE Raised(net.exc)

measure_p2p_download(cid, net) ==
    IF net.exc # NoExc
    THEN [type |-> "P2P", success |-> FALSE, error |-> net.msg]
    ELSE IF net.status = 200
    THEN IF net.json_ok
         THEN [type |-> "P2P", cid |-> cid,
               latency_ms |-> Round2(net.elapsed),
               size_bytes |-> DictGet(net.json, "bytes", 0),
               speed_mbps |-> DictGet(net.json, "speedMbps", 0),
               success |-> TRUE]
         ELSE [type |-> "P2P", success |-> FALSE,
               error |-> JsonDecodeMessage]
    ELSE [type |-> "P2P", success |-> FALSE, error |-> net.text]

measure_centralized_download(url, net) ==
    IF net.exc # NoExc
    THEN [type |-> "Centralized", success |-> FALSE, error |-> net.msg]
    ELSE [type |-> "Centralized", url |-> url,
          latency_ms |-> Round2(net.elapsed),
          size_bytes |-> net.content_len,
          speed_mbps |-> IF net.elapsed > 0
                         THEN RoundDiv(net.content_len * 800, net.elapsed)
                         ELSE 0,
          success |-> TRUE]

\* ---------------------------------------------------- network info fetchers
PeerList(k) ==
    [n \in 1..k |-> [peerId |-> "12D3KooWpeer" \o ToString(n),
                     address |-> "/ip4/10.0.0." \o ToString(n),
                     latency |-> "12ms"]]

\* Outcomes of GET /api/ipfs/info.
PeerOutcomes ==
    { NetError("ConnectionError", "connection refused"),
      NetResponse(500, 1000, 21, "Internal Server Error", FALSE, <<>>),
      NetResponse(200, 1000, 60, "{nodeId, peers}", TRUE,
                  [nodeId |-> "12D3KooWnode", agentVersion |-> "kubo/0.22",
                   peerCount |-> 0, peers |-> <<>>]) }
    \cup
    { NetResponse(200, 1000, 60, "{success, nodeId, peers}", TRUE,
                  [success |-> TRUE, nodeId |-> "12D3KooWnode",
                   agentVersion |-> "kubo/0.22", peerCount |-> k,
                   peers |-> PeerList(k)]) : k \in {0, 1, MaxPeers} }

\* Outcomes of GET /api/stats.
StatsOutcomes ==
    { NetError("ConnectionError", "connection refused"),
      NetResponse(500, 1000, 21, "Internal Server Error", FALSE, <<>>),
      NetResponse(200, 1000, 40, "{bandwidth}", TRUE,
                  [bandwidth |-> [totalIn |-> 1048576, totalOut |-> 2097152,
                                  rateIn |-> 1024, rateOut |-> 2048]]),
      NetResponse(200, 1000, 40, "{success, bandwidth}", TRUE,
                  [success |-> TRUE,
                   bandwidth |-> [totalIn |-> 1048576, totalOut |-> 2097152,
                                  rateIn |-> 1024, rateOut |-> 2048]]) }

get_peer_info(net) ==
    IF net.exc # NoExc THEN [success |-> FALSE, error |-> net.msg]
    ELSE IF net.status = 200
    THEN IF net.json_ok THEN net.json
         ELSE [success |-> FALSE, error |-> JsonDecodeMessage]
    ELSE [success |-> FALSE, error |-> "Failed to get peer info"]

get_network_stats(net) ==
    IF net.exc # NoExc THEN [success |-> FALSE, error |-> net.msg]
    ELSE IF net.status = 200
    THEN IF net.json_ok THEN net.json
         ELSE [success |-> FALSE, error |-> JsonDecodeMessage]
    ELSE [success |-> FALSE, error |-> "Failed to get stats"]

\* peers[:5]
Slice(s, n) == SubSeq(s, 1, IF Len(s) < n THEN Len(s) ELSE n)

RECURSIVE Concat(_)
Concat(ss) == IF ss = <<>> THEN <<>> ELSE Head(ss) \o Concat(Tail(ss))

\* The lines print_network_dashboard prints for the peer snapshot.
PeerLines(info) ==
    IF DictGet(info, "success", FALSE)
    THEN LET peers == Slice(DictGet(info, "peers", <<>>), PEER_LIST_LIMIT)
         IN  << "Node ID: " \o DictGet(info, "nodeId", "N/A"),
                "Agent: " \o DictGet(info, "agentVersion", "N/A"),
                "Connected Peers: " \o ToString(DictGet(info, "peerCount", 0)) >>
             \o (IF peers # <<>> THEN << "Peer List:" >> ELSE << >>)
             \o Concat([n \in 1..Len(peers) |->
                          << "peer " \o ToString(n) \o ". " \o peers[n].peerId,
                             "Address: " \o peers[n].address,
                             "Latency: " \o peers[n].latency >>])
    ELSE << "Failed to get peer info: " \o DictGet(info, "error", "Unknown error") >>

\* The lines print_network_dashboard prints for the bandwidth snapshot.
StatsLines(st) ==
    IF DictGet(st, "success", FALSE)
    THEN << "Bandwidth Statistics:", "Total In", "Total Out", "Rate In", "Rate Out" >>
    ELSE << >>

\* ------------------------------------------------------------------- state
VARIABLES
    entry,            \* the function of the module that is being run
    pc,               \* where that run stands
    HAS_MATPLOTLIB,   \* whether the import of matplotlib succeeded
    p2p_cids,         \* run_benchmark's arguments
    public_urls,
    iterations,
    t,                \* loop position: index of the current target ...
    i,                \* ... and the iteration within it
    results,          \* the result document being assembled
    calls,            \* every sampler call made so far, with what it returned
    stdout,           \* the lines printed so far
    json_file,        \* benchmark_results.json: << >> or << its content >>
    dump_calls,       \* how many times json.dump wrote the file
    image,            \* benchmark_results.png: << >> or << what was drawn >>
    response,         \* main's health probe: None, or what the request produced
    peer_info,        \* locals of print_network_dashboard
    stats

vars == << entry, pc, HAS_MATPLOTLIB, p2p_cids, public_urls, iterations, t, i,
           results, calls, stdout, json_file, dump_calls, image, response, peer_info, stats >>

NoSummary == [k \in {} |-> 0]

EmptyResults ==
    [p2p_results |-> <<>>, centralized_results |-> <<>>, summary |-> NoSummary]

None == [none |-> TRUE]

Entries == {"main", "run_benchmark", "measure_latency",
            "print_network_dashboard", "generate_comparison_graph"}

StartOf(e) ==
    CASE e = "main" -> "health"
      [] e = "run_benchmark" -> "rb_p2p"
      [] e = "measure_latency" -> "latency"
      [] e = "print_network_dashboard" -> "dash_peer"
      [] e = "generate_comparison_graph" -> "graph"

Cids(n) == [k \in 1..n |-> "Qm" \o ToString(k)]
Urls(n) == [k \in 1..n |-> "https://example.org/file" \o ToString(k)]

Init ==
    /\ entry \in Entries
    /\ pc = StartOf(entry)
    /\ HAS_MATPLOTLIB \in BOOLEAN
    /\ \E nc \in 0..MaxCids, nu \in 0..MaxUrls, it \in 0..MaxIter :
          /\ (nc + nu) * it <= MaxCalls
          /\ entry # "run_benchmark" => nc = 0 /\ nu = 0 /\ it = 0
          /\ p2p_cids = Cids(nc)
          /\ public_urls = Urls(nu)
          /\ iterations = it
    /\ t = 1
    /\ i = 0
    /\ results = EmptyResults
    /\ calls = <<>>
    /\ stdout = <<>>
    /\ json_file = <<>>
    /\ dump_calls = 0
    /\ image = <<>>
    /\ response = None
    /\ peer_info = None
    /\ stats = None

Call(fn, arg, net, ret) == [fn |-> fn, arg |-> arg, net |-> net, ret |-> ret]

\* ----------------------------------------------------------- measure_latency
MeasureLatency ==
    /\ pc = "latency"
    /\ \E net \in LatencyOutcomes :
          LET ret == measure_latency(PUBLIC_TEST_URLS[1], net)
          IN  /\ calls' = Append(calls, Call("measure_latency", PUBLIC_TEST_URLS[1], net, ret))
              /\ pc' = IF IsRaised(ret) THEN "raised" ELSE "done"
    /\ UNCHANGED << entry, response, HAS_MATPLOTLIB, p2p_cids, public_urls, iterations, t, i,
                    results, stdout, json_file, dump_calls, image, peer_info, stats >>

\* ------------------------------------------------------------- run_benchmark
\* Where a `for target: for i in range(n)` loop stands after one more body.
NextT(targets, n) == IF i + 1 = n THEN t + 1 ELSE t
NextI(n) == IF i + 1 = n THEN 0 ELSE i + 1

IterationLine(k, result) ==
    IF result.success
    THEN "Iteration " \o ToString(k + 1) \o ": " \o ToString(result.latency_ms)
    ELSE "Iteration " \o ToString(k + 1) \o ": Failed - "
             \o DictGet(result, "error", "Unknown error")

\* One pass of the body of the P2P loop (lines 158-164).
RbP2PSample ==
    /\ pc = "rb_p2p"
    /\ t <= Len(p2p_cids) /\ i < iterations
    /\ \E net \in P2POutcomes :
          LET result == measure_p2p_download(p2p_cids[t], net)
          IN  /\ calls' = Append(calls, Call("measure_p2p_download", p2p_cids[t], net, result))
              /\ results' = IF result.success
                            THEN [results EXCEPT !.p2p_results = Append(@, result)]
                            ELSE results
              /\ stdout' = Append(stdout, IterationLine(i, result))
    /\ t' = NextT(p2p_cids, iterations)
    /\ i' = NextI(iterations)
    /\ UNCHANGED << entry, response, pc, HAS_MATPLOTLIB, p2p_cids, public_urls, iterations,
                    json_file, dump_calls, image, peer_info, stats >>

\* The P2P loop is exhausted: on to the centralized loop.
RbP2PDone ==
    /\ pc = "rb_p2p"
    /\ (t > Len(p2p_cids) \/ iterations = 0)
    /\ pc' = "rb_central"
    /\ t' = 1
    /\ i' = 0
    /\ stdout' = Append(stdout, "Testing Centralized Downloads...")
    /\ UNCHANGED << entry, response, HAS_MATPLOTLIB, p2p_cids, public_urls, iterations,
                    results, calls, json_file, dump_calls, image, peer_info, stats >>

\* The loop body as the bug "a failed sample ends the loop" would have it.
RbCentralSampleStopsOnFailure ==
    /\ pc = "rb_central"
    /\ t <= Len(public_urls) /\ i < iterations
    /\ \E net \in CentralOutcomes :
          LET result == measure_centralized_download(public_urls[t], net)
          IN  /\ calls' = Append(calls, Call("measure_centralized_download", public_urls[t], net, result))
              /\ results' = IF result.success
                            THEN [results EXCEPT !.centralized_results = Append(@, result)]
                            ELSE results
              /\ stdout' = Append(stdout, IterationLine(i, result))
              /\ t' = IF result.success
                      THEN NextT(public_urls, iterations) ELSE Len(public_urls) + 1
              /\ i' = IF result.success THEN NextI(iterations) ELSE 0
    /\ UNCHANGED << entry, response, pc, HAS_MATPLOTLIB, p2p_cids, public_urls, iterations,
                    json_file, dump_calls, image, peer_info, stats >>

\* One pass of the body of the centralized loop (lines 170-176).
RbCentralSample ==
    /\ pc = "rb_central"
    /\ t <= Len(public_urls) /\ i < iterations
    /\ \E net \in CentralOutcomes :
          LET result == measure_centralized_download(public_urls[t], net)
          IN  /\ calls' = Append(calls, Call("measure_centralized_download", public_urls[t], net, result))
              /\ results' = IF result.success
                            THEN [results EXCEPT !.centralized_results = Append(@, result)]
                            ELSE results
              /\ stdout' = Append(stdout, IterationLine(i, result))
    /\ t' = NextT(public_urls, iterations)
    /\ i' = NextI(iterations)
    /\ UNCHANGED << entry, response, pc, HAS_MATPLOTLIB, p2p_cids, public_urls, iterations,
                    json_file, dump_calls, image, peer_info, stats >>

Latencies(samples) ==
    LET ok == SelectSeq(samples, LAMBDA r : r.success)
    IN  [k \in 1..Len(ok) |-> ok[k].latency_ms]

\* The summary entry run_benchmark computes for one kind (lines 183-188).
SummaryStatistics(lat) ==
    [avg_latency_ms |-> MeanRounded(lat),
     min_latency_ms |-> Round2(MinSeq(lat)),
     max_latency_ms |-> Round2(MaxSeq(lat)),
     std_dev |-> IF Len(lat) > 1 THEN StdevRounded(lat) ELSE 0]

SetKey(d, key, value) == [k \in DOMAIN d \cup {key} |-> IF k = key THEN value ELSE d[k]]

\* The summary as the bug "no `if latencies:` guard, zeros for an empty kind"
\* would build it.
RbSummaryZeroValued(res) ==
    LET zero == [avg_latency_ms |-> 0, min_latency_ms |-> 0,
                 max_latency_ms |-> 0, std_dev |-> 0]
        p2p_latencies == Latencies(res.p2p_results)
        central_latencies == Latencies(res.centralized_results)
        s1 == SetKey(res.summary, "p2p",
                     IF p2p_latencies # <<>>
                     THEN SummaryStatistics(p2p_latencies) ELSE zero)
    IN  SetKey(s1, "centralized",
               IF central_latencies # <<>>
               THEN SummaryStatistics(central_latencies) ELSE zero)

\* The summary mapping run_benchmark builds (lines 178-196).
RbSummary(res) ==
    LET p2p_latencies == Latencies(res.p2p_results)
        central_latencies == Latencies(res.centralized_results)
        s1 == IF p2p_latencies # <<>>
              THEN SetKey(res.summary, "p2p", SummaryStatistics(p2p_latencies))
              ELSE res.summary
    IN  IF central_latencies # <<>>
        THEN SetKey(s1, "centralized", SummaryStatistics(central_latencies))
        ELSE s1

\* The centralized loop is exhausted: summary statistics, then return.
RbSummarize ==
    /\ pc = "rb_central"
    /\ (t > Len(public_urls) \/ iterations = 0)
    /\ results' = [results EXCEPT !.summary = RbSummary(results)]
    /\ pc' = "done"
    /\ UNCHANGED << entry, response, HAS_MATPLOTLIB, p2p_cids, public_urls, iterations, t, i,
                    calls, stdout, json_file, dump_calls, image, peer_info, stats >>

\* ---------------------------------------------------- print_network_dashboard
\* Lines 310-325: fetch the peer snapshot and print it.
DashPeer ==
    /\ pc = "dash_peer"
    /\ \E net \in PeerOutcomes :
          /\ peer_info' = get_peer_info(net)
          /\ stdout' = stdout \o PeerLines(peer_info')
    /\ pc' = "dash_stats"
    /\ UNCHANGED << entry, response, HAS_MATPLOTLIB, p2p_cids, public_urls, iterations, t, i,
                    results, calls, json_file, dump_calls, image, stats >>

\* Lines 327-335: fetch the bandwidth snapshot and print it.
DashStats ==
    /\ pc = "dash_stats"
    /\ \E net \in StatsOutcomes :
          /\ stats' = get_network_stats(net)
          /\ stdout' = stdout \o StatsLines(stats')
    /\ pc' = "dash_return"
    /\ UNCHANGED << entry, response, HAS_MATPLOTLIB, p2p_cids, public_urls, iterations, t, i,
                    results, calls, json_file, dump_calls, image, peer_info >>

\* print_network_dashboard returns: its locals are gone.
DashReturn ==
    /\ pc = "dash_return"
    /\ peer_info' = None
    /\ stats' = None
    /\ pc' = IF entry = "main" THEN "sample" ELSE "done"
    /\ UNCHANGED << entry, response, HAS_MATPLOTLIB, p2p_cids, public_urls, iterations, t, i,
                    results, calls, stdout, json_file, dump_calls, image >>

\* ---------------------------------------------------------------------- main
OfflineLines ==
    << "Backend is offline. Please start the backend server first.",
       "   Run: cd backend && npm start" >>

\* The probe as the bug "a non-200 status also halts the run" would have it.
HealthCheckHaltsOnNon200(net) ==
    IF net.exc # NoExc
    THEN IF IsRequestException(net.exc)
         THEN [lines |-> OfflineLines, next |-> "done"]
         ELSE [lines |-> << >>, next |-> "raised"]
    ELSE IF net.status = 200
    THEN [lines |-> << "Backend is online" >>, next |-> "dash_peer"]
    ELSE [lines |-> OfflineLines, next |-> "done"]

\* Lines 348-358: the health probe.
HealthCheck(net) ==
    IF net.exc # NoExc
    THEN IF IsRequestException(net.exc)
         THEN [lines |-> OfflineLines, next |-> "done"]
         ELSE [lines |-> << >>, next |-> "raised"]
    ELSE IF net.status = 200
    THEN [lines |-> << "Backend is online" >>, next |-> "dash_peer"]
    ELSE [lines |-> << "Backend returned non-200 status" >>, next |-> "dash_peer"]

MainHealth ==
    /\ pc = "health"
    /\ \E net \in HealthOutcomes :
          /\ response' = net
          /\ stdout' = stdout \o HealthCheck(net).lines
          /\ pc' = HealthCheck(net).next
    /\ UNCHANGED << entry, HAS_MATPLOTLIB, p2p_cids, public_urls, iterations, t, i,
                    results, calls, json_file, dump_calls, image, peer_info, stats >>

\* One pass of the body of main's sampling loop (lines 379-383).
MainSample ==
    /\ pc = "sample"
    /\ \E net \in CentralOutcomes :
          LET result == measure_centralized_download(PUBLIC_TEST_URLS[t], net)
          IN  /\ calls' = Append(calls, Call("measure_centralized_download",
                                              PUBLIC_TEST_URLS[t], net, result))
              /\ results' = IF result.success
                            THEN [results EXCEPT !.centralized_results = Append(@, result)]
                            ELSE results
              /\ stdout' = IF result.success
                           THEN Append(stdout, IterationLine(i, result))
                           ELSE stdout
    /\ t' = NextT(PUBLIC_TEST_URLS, MAIN_ITERATIONS)
    /\ i' = NextI(MAIN_ITERATIONS)
    /\ pc' = IF t' > Len(PUBLIC_TEST_URLS) THEN "summary" ELSE "sample"
    /\ UNCHANGED << entry, response, HAS_MATPLOTLIB, p2p_cids, public_urls, iterations,
                    json_file, dump_calls, image, peer_info, stats >>

\* The summary as the bug "statistics need two samples" would build it.
MainSummaryNeedsTwo(res) ==
    LET latencies == Latencies(res.centralized_results)
    IN  IF Len(latencies) > 1
        THEN SetKey(res.summary, "centralized",
                    [avg_latency_ms |-> MeanRounded(latencies),
                     min_latency_ms |-> Round2(MinSeq(latencies)),
                     max_latency_ms |-> Round2(MaxSeq(latencies))])
        ELSE res.summary

\* The summary mapping main builds (lines 386-392).
MainSummary(res) ==
    LET latencies == Latencies(res.centralized_results)
    IN  IF latencies # <<>>
        THEN SetKey(res.summary, "centralized",
                    [avg_latency_ms |-> MeanRounded(latencies),
                     min_latency_ms |-> Round2(MinSeq(latencies)),
                     max_latency_ms |-> Round2(MaxSeq(latencies))])
        ELSE res.summary

MainSummarize ==
    /\ pc = "summary"
    /\ results' = [results EXCEPT !.summary = MainSummary(results)]
    /\ stdout' = IF "centralized" \in DOMAIN results'.summary
                 THEN Append(stdout, "Summary:")
                 ELSE stdout
    /\ pc' = "save"
    /\ UNCHANGED << entry, response, HAS_MATPLOTLIB, p2p_cids, public_urls, iterations, t, i,
                    calls, json_file, dump_calls, image, peer_info, stats >>

\* Lines 399-407: json.dump(results) into benchmark_results.json.
MainSave ==
    /\ pc = "save"
    /\ json_file' = << results >>
    /\ dump_calls' = dump_calls + 1
    /\ stdout' = stdout \o << "Results saved to: benchmark_results.json",
                              "Monitoring complete!" >>
    /\ pc' = "chart"
    /\ UNCHANGED << entry, response, HAS_MATPLOTLIB, p2p_cids, public_urls, iterations, t, i,
                    results, calls, image, peer_info, stats >>

\* The condition as the bug "the library check is forgotten" would have it.
ChartBranchIgnoresLibrary(res) == res.centralized_results # <<>>

\* Whether main enters the chart branch (line 410).
ChartBranch(res) == HAS_MATPLOTLIB /\ res.centralized_results # <<>>

\* The demo-mode figures (lines 413-421); x * 0.3 is x * 3 / 10.
MockP2P(res) ==
    LET c == res.summary["centralized"]
        mock == [avg_latency_ms |-> (c.avg_latency_ms * 3) \div 10,
                 min_latency_ms |-> (c.min_latency_ms * 2) \div 10,
                 max_latency_ms |-> (c.max_latency_ms * 4) \div 10]
    IN  [res EXCEPT
           !.summary = SetKey(@, "p2p", mock),
           !.p2p_results = [k \in 1..5 |->
                              [success |-> TRUE,
                               latency_ms |-> mock.avg_latency_ms + (k - 3) * 5000]]]

\* The chart branch as the bug "the document is saved again with the demo
\* figures in it" would have it.
MainChartSavesAgain ==
    /\ pc = "chart"
    /\ IF ChartBranch(results)
       THEN IF "centralized" \in DOMAIN results.summary
            THEN /\ results' = MockP2P(results)
                 /\ json_file' = << results' >>
                 /\ dump_calls' = dump_calls + 1
                 /\ stdout' = Append(stdout, "Generating performance graph...")
                 /\ pc' = "graph"
            ELSE /\ pc' = "raised"
                 /\ UNCHANGED << results, stdout, json_file, dump_calls >>
       ELSE /\ pc' = "done"
            /\ UNCHANGED << results, stdout, json_file, dump_calls >>
    /\ UNCHANGED << entry, response, HAS_MATPLOTLIB, p2p_cids, public_urls, iterations, t, i,
                    calls, image, peer_info, stats >>

\* Lines 409-421: the chart branch up to the call of generate_comparison_graph.
MainChart ==
    /\ pc = "chart"
    /\ IF ChartBranch(results)
       THEN IF "centralized" \in DOMAIN results.summary
            THEN /\ results' = MockP2P(results)
                 /\ stdout' = Append(stdout, "Generating performance graph...")
                 /\ pc' = "graph"
            ELSE /\ pc' = "raised"
                 /\ UNCHANGED << results, stdout >>
       ELSE /\ pc' = "done"
            /\ UNCHANGED << results, stdout >>
    /\ UNCHANGED << entry, response, HAS_MATPLOTLIB, p2p_cids, public_urls, iterations, t, i,
                    calls, json_file, dump_calls, image, peer_info, stats >>

\* -------------------------------------------------- generate_comparison_graph
SummaryValues(summary, kind) ==
    LET s == DictGet(summary, kind, NoSummary)
    IN  << DictGet(s, "avg_latency_ms", 0),
           DictGet(s, "min_latency_ms", 0),
           DictGet(s, "max_latency_ms", 0) >>

\* What the two panels draw (lines 219-232 and 268-269).
Drawing(res) ==
    [p2p_values |-> SummaryValues(res.summary, "p2p"),
     central_values |-> SummaryValues(res.summary, "centralized"),
     p2p_latencies |-> Latencies(res.p2p_results),
     central_latencies |-> Latencies(res.centralized_results)]

GenerateComparisonGraph ==
    /\ pc = "graph"
    /\ IF ~HAS_MATPLOTLIB
       THEN /\ stdout' = Append(stdout, "Cannot generate graph: matplotlib not installed")
            /\ image' = image
       ELSE /\ image' = << Drawing(results) >>
            /\ stdout' = Append(stdout, "Graph saved to: benchmark_results.png")
    /\ pc' = "done"
    /\ UNCHANGED << entry, response, HAS_MATPLOTLIB, p2p_cids, public_urls, iterations, t, i,
                    results, calls, json_file, dump_calls, peer_info, stats >>

Next ==
    \/ MeasureLatency
    \/ RbP2PSample \/ RbP2PDone \/ RbCentralSample \/ RbSummarize
    \/ DashPeer \/ DashStats \/ DashReturn
    \/ MainHealth \/ MainSample \/ MainSummarize \/ MainSave \/ MainChart
    \/ GenerateComparisonGraph

Spec == Init /\ [][Next]_vars

\* ===================================================================== claims
Has(seq, line) == \E k \in 1..Len(seq) : seq[k] = line

SamplerCalls(fn) == SelectSeq(calls, LAMBDA c : c.fn = fn)

SucceededCall(fn) ==
    \E k \in 1..Len(calls) :
        calls[k].fn = fn /\ ~IsRaised(calls[k].ret) /\ calls[k].ret.success

SamplerOf(kind) ==
    IF kind = "p2p" THEN "measure_p2p_download" ELSE "measure_centralized_download"

GotResponse == response # None /\ response.exc = NoExc

MainReturned == entry = "main" /\ pc = "done"

\* ---- C1
\* C1 as stated: in main, a health probe that does not answer 200 (another
\* status, or no response at all) prints the offline message and no sampler
\* is ever called; a 200 lets the run go on to its six samples.
C1_GatedByStatus200 ==
    entry = "main" /\ response # None =>
        IF GotResponse /\ response.status = 200
        THEN MainReturned => Len(calls) = Len(PUBLIC_TEST_URLS) * MAIN_ITERATIONS
        ELSE calls = <<>> /\ Has(stdout, OfflineLines[1])

\* C1 amended: main is gated by the probe getting a response at all.  With
\* any response (200 or not; a non-200 status only prints a warning) the run
\* goes on to the dashboard and makes its six sampler calls; only when the
\* request raises a requests exception does main print the offline message
\* and return without a sampler call.
C1_GatedByResponse ==
    entry = "main" /\ response # None =>
        IF GotResponse
        THEN /\ ~Has(stdout, OfflineLines[1])
             /\ response.status # 200 => Has(stdout, "Backend returned non-200 status")
             /\ MainReturned => Len(calls) = Len(PUBLIC_TEST_URLS) * MAIN_ITERATIONS
        ELSE /\ pc = "done"
             /\ calls = <<>>
             /\ stdout = OfflineLines

\* A run whose probe answered 503 and that sampled all the same.
C1_Witness ==
    /\ MainReturned
    /\ GotResponse /\ response.status = 503
    /\ Len(calls) = Len(PUBLIC_TEST_URLS) * MAIN_ITERATIONS

\* ---- C2
\* C2: for both download samplers, a response whose status is outside 2xx
\* gives a record with success = FALSE and an error text, never a
\* success = TRUE sample.
C2_Non2xxIsFailure ==
    \A k \in 1..Len(calls) :
        LET c == calls[k] IN
        (/\ c.fn \in {"measure_p2p_download", "measure_centralized_download"}
         /\ c.net.exc = NoExc
         /\ c.net.status \notin 200..299)
        => ~c.ret.success /\ "error" \in DOMAIN c.ret

\* ---- C3
\* C3: every sampler returns a record for every outcome of its request (no
\* exception leaves it), and every record with success = FALSE has an error
\* field that is present and not empty.
C3_FailuresCarryError ==
    \A k \in 1..Len(calls) :
        LET r == calls[k].ret IN
        /\ ~IsRaised(r)
        /\ ~r.success => "error" \in DOMAIN r /\ r.error # ""

\* ---- C4
SummaryIsMeasured(res) ==
    \A kind \in {"p2p", "centralized"} :
        kind \in DOMAIN res.summary => SucceededCall(SamplerOf(kind))

\* C4 as stated: in every state of run_benchmark and of main the summary has
\* an entry for a kind only if a measured sample of that kind succeeded.
C4_SummaryOnlyMeasured ==
    entry \in {"run_benchmark", "main"} => SummaryIsMeasured(results)

\* main is past line 410 with the chart branch taken.
InChartBranch ==
    entry = "main" /\ pc \in {"graph", "done"} /\ dump_calls = 1 /\ ChartBranch(results)

\* C4 amended: the summary has an entry for a kind only if a measured sample
\* of that kind succeeded, in every state of run_benchmark and in every state
\* of main up to and including the write of the results file (so also in the
\* file) and in every later state of a run that skips the chart branch; the
\* chart branch, taken after the file is written, adds a "p2p" entry
\* although main calls no P2P sampler.
C4_SummaryOnlyMeasuredBeforeChart ==
    entry \in {"run_benchmark", "main"} =>
        /\ ~InChartBranch => SummaryIsMeasured(results)
        /\ \A k \in 1..Len(json_file) : SummaryIsMeasured(json_file[k])
        /\ InChartBranch =>
              /\ DOMAIN results.summary = {"p2p", "centralized"}
              /\ SucceededCall("measure_centralized_download")
              /\ SamplerCalls("measure_p2p_download") = <<>>

\* run_benchmark returned with failed P2P calls only and a centralized success:
\* the summary has the centralized entry alone.
C4_Witness ==
    /\ entry = "run_benchmark" /\ pc = "done"
    /\ SamplerCalls("measure_p2p_download") # <<>>
    /\ ~SucceededCall("measure_p2p_download")
    /\ DOMAIN results.summary = {"centralized"}

\* ---- C5
\* C5: what main writes to benchmark_results.json never holds the demo-mode
\* P2P figures: the written document has no "p2p" summary entry and no P2P
\* samples, the file is written once, and once the figures exist in memory
\* the file still holds the document from before them.
C5_FileHasNoMockP2P ==
    entry = "main" =>
        /\ dump_calls <= 1
        /\ Len(json_file) = dump_calls
        /\ \A k \in 1..Len(json_file) :
              /\ "p2p" \notin DOMAIN json_file[k].summary
              /\ json_file[k].p2p_results = <<>>
        /\ results.p2p_results # <<>> =>
              /\ dump_calls = 1
              /\ json_file[1].centralized_results = results.centralized_results

\* main returned after generating the demo figures, the file on disk.
C5_Witness ==
    /\ MainReturned
    /\ "p2p" \in DOMAIN results.summary /\ Len(results.p2p_results) = 5
    /\ json_file # <<>>

\* ---- C6
\* C6: main reaches generate_comparison_graph only with the library present
\* and a centralized sample recorded; an image exists only if the library is
\* present (and, in main, a centralized sample succeeded); without the
\* library generate_comparison_graph prints its warning and draws nothing.
C6_ChartOnlyWhenPossible ==
    /\ entry = "main" /\ (pc = "graph" \/ image # <<>>) =>
          /\ HAS_MATPLOTLIB
          /\ results.centralized_results # <<>>
          /\ SucceededCall("measure_centralized_download")
    /\ image # <<>> => HAS_MATPLOTLIB
    /\ entry = "generate_comparison_graph" /\ pc = "done" /\ ~HAS_MATPLOTLIB =>
          /\ image = <<>>
          /\ stdout = << "Cannot generate graph: matplotlib not installed" >>
    /\ entry = "main" /\ pc = "done" /\ dump_calls = 1 /\ ~ChartBranch(results) =>
          image = <<>>

\* main drew the chart.
C6_Witness == MainReturned /\ image # <<>>

\* ---- C7
TotalCalls == (Len(p2p_cids) + Len(public_urls)) * iterations

\* The k-th sampler call run_benchmark is due to make.
ExpectedFn(k) ==
    IF k <= Len(p2p_cids) * iterations
    THEN "measure_p2p_download" ELSE "measure_centralized_download"

ExpectedArg(k) ==
    IF k <= Len(p2p_cids) * iterations
    THEN p2p_cids[(k - 1) \div iterations + 1]
    ELSE public_urls[(k - 1 - Len(p2p_cids) * iterations) \div iterations + 1]

Successes(fn) ==
    LET ok == SelectSeq(calls, LAMBDA c : c.fn = fn /\ c.ret.success)
    IN  [k \in 1..Len(ok) |-> ok[k].ret]

\* C7: run_benchmark calls the sampler of each target exactly `iterations`
\* times, one call after the other, every P2P target before any centralized
\* one, whatever succeeds or fails (no retry, no early stop); each result
\* sequence is exactly the successful samples of its kind in call order.
C7_ExactlyIterationsPerTarget ==
    entry = "run_benchmark" =>
        /\ Len(calls) <= TotalCalls
        /\ \A k \in 1..Len(calls) :
              calls[k].fn = ExpectedFn(k) /\ calls[k].arg = ExpectedArg(k)
        /\ pc = "done" => Len(calls) = TotalCalls
        /\ results.p2p_results = Successes("measure_p2p_download")
        /\ results.centralized_results = Successes("measure_centralized_download")

\* Two targets of each kind, a failure followed by a success on the first of
\* each: the loops went on to the last call.
C7_Witness ==
    /\ entry = "run_benchmark" /\ pc = "done"
    /\ Len(p2p_cids) = 2 /\ Len(public_urls) = 1 /\ iterations = 2
    /\ ~calls[1].ret.success /\ calls[2].ret.success
    /\ ~calls[5].ret.success /\ calls[6].ret.success

\* ---- C8
\* Two URLs were sampled three times each and all six requests succeeded
\* with one latency.
SixEqualSamples ==
    /\ \/ entry = "main"
       \/ entry = "run_benchmark" /\ Len(public_urls) = 2 /\ iterations = 3
    /\ pc = "done"
    /\ Len(calls) = 6
    /\ \A k \in 1..6 :
          /\ calls[k].fn = "measure_centralized_download"
          /\ calls[k].ret.success
          /\ calls[k].ret.latency_ms = calls[1].ret.latency_ms

\* C8: 2 URLs x 3 iterations, every request succeeding with the same latency
\* L, give exactly 6 centralized samples and a centralized summary with
\* avg = min = max = L and a standard deviation entry equal to 0, in
\* run_benchmark and in main alike.
C8_SixSamplesFlatSummary ==
    SixEqualSamples =>
        /\ Len(results.centralized_results) = 6
        /\ "centralized" \in DOMAIN results.summary
        /\ LET c == results.summary["centralized"]
               L == calls[1].ret.latency_ms
           IN  /\ c.avg_latency_ms = L
               /\ c.min_latency_ms = L
               /\ c.max_latency_ms = L
               /\ "std_dev" \in DOMAIN c
               /\ c.std_dev = 0

\* ---- C9
FetchFailed(snapshot) ==
    "error" \in DOMAIN snapshot /\ ~DictGet(snapshot, "success", FALSE)

\* The lines main printed before it called print_network_dashboard.
LinesBeforeDashboard == IF entry = "main" THEN 1 ELSE 0

PeersListed ==
    Cardinality({k \in 1..Len(stdout) :
                    \E n \in 1..MaxPeers + 1 :
                        stdout[k] = "Address: /ip4/10.0.0." \o ToString(n)})

\* C9: when print_network_dashboard is about to return, each snapshot whose
\* fetch failed (connection error or non-200) has had an error line printed
\* for it, the function got there without an exception, and at most 5 peers
\* are listed.
C9_EachFailureHasErrorLine ==
    /\ pc # "raised"
    /\ PeersListed <= PEER_LIST_LIMIT
    /\ pc = "dash_return" =>
          /\ FetchFailed(peer_info) =>
                stdout[LinesBeforeDashboard + 1]
                    = "Failed to get peer info: " \o peer_info.error
          /\ FetchFailed(stats) =>
                Len(stdout) > LinesBeforeDashboard + Len(PeerLines(peer_info))

\* ---- C10
AfterSummaryStep ==
    entry = "main" /\ (pc \in {"save", "chart", "graph"} \/ (pc = "done" /\ dump_calls = 1))

\* C10: in main, after the summary step, summary["centralized"] exists
\* exactly when centralized_results is not empty, so the chart branch always
\* finds the entry it reads and main never faults on a missing key.
C10_CentralSummaryIffSamples ==
    entry = "main" =>
        /\ pc # "raised"
        /\ AfterSummaryStep =>
              ("centralized" \in DOMAIN results.summary
                   <=> results.centralized_results # <<>>)
        /\ pc = "graph" =>
              {"avg_latency_ms", "min_latency_ms", "max_latency_ms"}
                  \subseteq DOMAIN results.summary["centralized"]

\* The chart branch taken after a run in which only one of the six samples
\* succeeded.
C10_Witness ==
    /\ entry = "main" /\ pc = "graph"
    /\ Len(results.centralized_results) = 1
    /\ Len(calls) = 6
====
